---- MODULE Spec2Model ----
(***************************************************************************)
(* The ChatPlayer playback state machine (components/ChatPlayer.tsx): the  *)
(* React state of the component, its three effects, the pending reveal or  *)
(* dwell timer, and the control handle play/pause/restart/skip/next/       *)
(* setSpeed/setDelay.  A handler or a timer callback only queues state     *)
(* updates.  React renders those of a handler and runs the effects of the  *)
(* render either at once (one action: a click is rendered and its effects  *)
(* are run before the event ends) or later, in steps of their own (a       *)
(* queueing action, then Flush, then RunEffects); those of a timer         *)
(* callback are always rendered later.  Until the render the handle and    *)
(* the buttons belong to the previous render, and until the effects have   *)
(* run the timeout of the previous render is still pending.                *)
(***************************************************************************)
EXTENDS Integers, Sequences, FiniteSets, TLC

VARIABLES script, layout, status, messages, typed, composerText, idx,
          speed, delayMs, timer, elapsed, snapshot, queued, pending, effects, op,
          text, parsed

vars == <<script, layout, status, messages, typed, composerText, idx,
          speed, delayMs, timer, elapsed, snapshot, queued, pending, effects, op,
          text, parsed>>

----------------------------------------------------------------------------
\* Bounds of the model.

\* longest script, in turns
MaxTurns == 2
\* longest text content, in characters
MaxLen == 2
\* how many entries beyond the script's length the message list may grow to
MaxExtra == 1
\* longest text given to the parser, in lines
MaxLines == 3
\* how many handlers and timer callbacks may have queued state updates that
\* wait for React (a render whose effects have not run yet counts as one)
MaxCalls == 2
\* how many updates may be queued when the parent passes another script
MaxQueuedAtReplacement == 0

----------------------------------------------------------------------------
\* Optional values: an optional field (x?: T, T | null) is <<>> when absent
\* and <<v>> when present.

None == <<>>
Some(v) == <<v>>

\* a ?? d
OrElse(o, d) == IF o = None THEN d ELSE o[1]

Max(a, b) == IF a >= b THEN a ELSE b

----------------------------------------------------------------------------
\* The script model (types.ts).

Alphabet == <<"a", "b", "c", "d", "e", "f">>

\* a text of n characters
Text(n) == SubSeq(Alphabet, 1, n)

\* content.slice(0, n)
Slice(content, n) == SubSeq(content, 1, IF n <= Len(content) THEN n ELSE Len(content))

Message(role, kind, content, durationMs) ==
    [role |-> role, kind |-> kind, content |-> content, durationMs |-> durationMs]

\* the turns scripts are built from: text turns of both routing classes
\* (user / not user), with the kind tag absent or "message", with content
\* absent, empty or MaxLen characters long, and event turns with and without
\* a duration, one of them carrying the role user
Turns ==
    { Message("user", None, Some(Text(MaxLen)), None),
      Message("user", Some("message"), None, None),
      Message("assistant", None, Some(Text(MaxLen)), None),
      Message("system", Some("message"), Some(Text(0)), None),
      Message("assistant", Some("tool_call"), None, None),
      Message("user", Some("tool_result"), None, Some(100)) }

RECURSIVE SeqsUpTo(_, _)
SeqsUpTo(S, n) ==
    IF n = 0 THEN { <<>> }
    ELSE LET shorter == SeqsUpTo(S, n - 1)
         IN  shorter \cup { Append(q, x) : q \in { r \in shorter : Len(r) = n - 1 }, x \in S }

ScriptOptions == { None, Some([typingSpeed |-> Some(2), messageDelayMs |-> Some(0)]) }

ChatScript(msgs, options) == [messages |-> msgs, options |-> options]

\* the turn the scripts of MaxTurns turns begin with
FirstTurn == Message("assistant", None, Some(Text(MaxLen)), None)

\* Script.turns of the scripts: every sequence of fewer than MaxTurns turns,
\* the sequences of MaxTurns turns that begin with FirstTurn, and the one of
\* MaxTurns text turns of role user that have no content
ScriptMessages ==
    SeqsUpTo(Turns, MaxTurns - 1)
        \cup { <<FirstTurn>> \o m : m \in { r \in SeqsUpTo(Turns, MaxTurns - 1) :
                                               Len(r) = MaxTurns - 1 } }
        \cup { [i \in 1..MaxTurns |-> Message("user", Some("message"), None, None)] }

\* the values of the script prop: null, a script without options, or a
\* script with options of its own (the empty one and the one of FirstTurn)
Scripts ==
    { None } \cup
    { Some(ChatScript(m, None)) : m \in ScriptMessages } \cup
    { Some(ChatScript(m, o)) : m \in { <<>>, <<FirstTurn>> }, o \in ScriptOptions \ { None } }

\* the scripts the parent replaces a mounted script by: null, or a script
\* with a turn and options of its own
Replacements ==
    { None } \cup { Some(ChatScript(<<FirstTurn>>, o)) : o \in ScriptOptions \ { None } }

\* the layouts: "live" runs the same playback code as "classic" (only
\* "liveScript" is tested for) and is left out
Layouts == { "classic", "liveScript" }

\* the values the speed and delay sliders / setSpeed and setDelay are given:
\* neither the defaults nor the values of ScriptOptions, so that the first
\* call changes the value and a second call does not
SpeedInputs == { 70 }
DelayInputs == { 250 }

defaultTypingSpeed == 35
defaultDelayMs == 500
defaultDurationMs == 1200

----------------------------------------------------------------------------
\* The text parser (utils/parseTextScript.ts).  A string is the sequence of
\* its characters.

UpperCase == <<"A", "B", "C", "D", "E", "F", "G", "H", "I", "J", "K", "L", "M",
               "N", "O", "P", "Q", "R", "S", "T", "U", "V", "W", "X", "Y", "Z">>
LowerCase == <<"a", "b", "c", "d", "e", "f", "g", "h", "i", "j", "k", "l", "m",
               "n", "o", "p", "q", "r", "s", "t", "u", "v", "w", "x", "y", "z">>

\* String.prototype.toLowerCase
toLowerCase(str) ==
    [i \in 1..Len(str) |->
        IF \E k \in 1..26 : UpperCase[k] = str[i]
        THEN LowerCase[CHOOSE k \in 1..26 : UpperCase[k] = str[i]]
        ELSE str[i]]

\* text.replace(/\r\n?/g, '\n')
RECURSIVE normalizeBreaks(_)
normalizeBreaks(str) ==
    IF str = <<>> THEN <<>>
    ELSE IF Head(str) = "\r"
    THEN <<"\n">> \o normalizeBreaks(IF Len(str) >= 2 /\ str[2] = "\n"
                                      THEN SubSeq(str, 3, Len(str))
                                      ELSE Tail(str))
    ELSE <<Head(str)>> \o normalizeBreaks(Tail(str))

\* str.split('\n')
RECURSIVE split(_)
split(str) ==
    IF \E i \in 1..Len(str) : str[i] = "\n"
    THEN LET i == CHOOSE i \in 1..Len(str) :
                      str[i] = "\n" /\ \A j \in 1..(i - 1) : str[j] # "\n"
         IN  <<SubSeq(str, 1, i - 1)>> \o split(SubSeq(str, i + 1, Len(str)))
    ELSE <<str>>

\* the alternatives of the pattern's first group, and the roles they spell
Labels == << <<"u", "s", "e", "r">>,
             <<"a", "s", "s", "i", "s", "t", "a", "n", "t">>,
             <<"s", "y", "s", "t", "e", "m">> >>
Roles == <<"user", "assistant", "system">>

\* A character that cannot be written in a string of this language stands
\* as the name of its code point.

\* the class \s: WhiteSpace and LineTerminator of ECMAScript
WhiteSpace ==
    { " ", "\t", "\n", "\r", "\f", "U+000B", "U+00A0", "U+1680",
      "U+2000", "U+2001", "U+2002", "U+2003", "U+2004", "U+2005", "U+2006",
      "U+2007", "U+2008", "U+2009", "U+200A", "U+2028", "U+2029", "U+202F",
      "U+205F", "U+3000", "U+FEFF" }

\* the characters that . does not match
LineTerminators == { "\n", "\r", "U+2028", "U+2029" }

isSpace(ch) == ch \in WhiteSpace

\* the first position from i on that holds no white space
RECURSIVE skipSpaces(_, _)
skipSpaces(line, i) ==
    IF i <= Len(line) /\ isSpace(line[i]) THEN skipSpaces(line, i + 1) ELSE i

\* the pattern without its i flag: labels are matched as spelled
execCaseSensitive(line) ==
    LET hits == { k \in 1..3 : /\ Len(line) >= Len(Labels[k])
                               /\ SubSeq(line, 1, Len(Labels[k])) = Labels[k] }
    IN  IF hits = {} THEN None
        ELSE LET k == CHOOSE k \in hits : TRUE
                 colon == skipSpaces(line, Len(Labels[k]) + 1)
             IN  IF colon <= Len(line) /\ line[colon] = ":"
                 THEN LET rest == SubSeq(line, skipSpaces(line, colon + 1), Len(line))
                      IN  IF \E i \in 1..Len(rest) : rest[i] \in LineTerminators
                          THEN None
                          ELSE Some([role |-> Roles[k], content |-> rest])
                 ELSE None

\* /^(user|assistant|system)\s*:\s*(.*)$/i.exec(line): no match, or the role
\* m[1].toLowerCase() and m[2].  The white space after the colon goes to the
\* second \s*; (.*)$ then has to reach the end of the line, which it does
\* unless a line terminator stands in its way.
exec(line) ==
    LET hits == { k \in 1..3 : /\ Len(line) >= Len(Labels[k])
                               /\ toLowerCase(SubSeq(line, 1, Len(Labels[k]))) = Labels[k] }
    IN  IF hits = {} THEN None
        ELSE LET k == CHOOSE k \in hits : TRUE
                 colon == skipSpaces(line, Len(Labels[k]) + 1)
             IN  IF colon <= Len(line) /\ line[colon] = ":"
                 THEN LET rest == SubSeq(line, skipSpaces(line, colon + 1), Len(line))
                      IN  IF \E i \in 1..Len(rest) : rest[i] \in LineTerminators
                          THEN None
                          ELSE Some([role |-> Roles[k], content |-> rest])
                 ELSE None

\* the loop over the lines from line i on: out is the list of finished
\* messages, cur the message being collected (if any)
RECURSIVE parseLines(_, _, _, _)
parseLines(lines, i, out, cur) ==
    IF i > Len(lines)
    THEN IF cur = None THEN out ELSE Append(out, cur[1])
    ELSE LET m == exec(lines[i]) IN
         IF m # None
         THEN parseLines(lines, i + 1,
                         IF cur = None THEN out ELSE Append(out, cur[1]),
                         Some([role |-> m[1].role, content |-> m[1].content]))
         ELSE IF cur = None
         THEN parseLines(lines, i + 1, out,
                         Some([role |-> "assistant", content |-> lines[i]]))
         ELSE parseLines(lines, i + 1, out,
                         Some([cur[1] EXCEPT !.content = @ \o <<"\n">> \o lines[i]]))

parseTextScript(str, title) ==
    LET lines == split(normalizeBreaks(str))
        out == parseLines(lines, 1, <<>>, None)
    IN  [title |-> title,
         messages |-> [i \in 1..Len(out) |->
                          Message(out[i].role, None, Some(out[i].content), None)],
         options |-> Some([typingSpeed |-> Some(35), messageDelayMs |-> Some(500)])]

\* the lines the model's texts are made of: empty, labelled in several
\* spellings, with and without white space (blank, form feed, line
\* separator) around the colon, a label that does not start the line (an
\* unlabelled line), and a labelled line with a line separator in its
\* content
LineSamples ==
    { <<>>,
      <<"U", "s", "e", "r", ":", " ", "h">>,
      <<"u", "s", "e", "r", " ", ":", "h">>,
      <<"A", "S", "S", "I", "S", "T", "A", "N", "T", ":">>,
      <<"s", "y", "s", "t", "e", "m", "\f", ":", "\f", "h", " ">>,
      <<" ", "u", "s", "e", "r", ":", "h">>,
      <<"u", "s", "e", "r", ":", "U+2028", "h">>,
      <<"u", "s", "e", "r", ":", "h", "U+2028", "h">> }

LineBreaks == { <<"\n">>, <<"\r", "\n">>, <<"\r">> }

RECURSIVE TextsOf(_)
TextsOf(n) ==
    IF n = 1 THEN LineSamples
    ELSE { t \o b \o l : t \in TextsOf(n - 1), b \in LineBreaks, l \in LineSamples }

Texts == UNION { TextsOf(n) : n \in 1..MaxLines }

defaultTitle == <<"T", "e", "x", "t", " ", "S", "c", "r", "i", "p", "t">>

----------------------------------------------------------------------------
\* The component state as one record: what a render closes over (c) and
\* what the state setters of a handler produce (s).

State ==
    [script |-> script, status |-> status, messages |-> messages, typed |-> typed,
     composerText |-> composerText, idx |-> idx, speed |-> speed, delayMs |-> delayMs]

\* script?.messages.length ?? 0
Total(sc) == IF sc = None THEN 0 ELSE Len(sc[1].messages)

\* const current = useMemo(() => script?.messages[idx] ?? null, [script, idx])
current(c) ==
    IF c.script = None THEN None
    ELSE IF c.idx + 1 \in 1..Len(c.script[1].messages) THEN Some(c.script[1].messages[c.idx + 1])
    ELSE None

\* !current.kind || current.kind === 'message'
isMessageKind(m) == m.kind = None \/ m.kind = Some("message")

isUser(m) == m.role = "user" /\ isMessageKind(m)

isAssistantMessage(m) == m.role # "user" /\ isMessageKind(m)

isTool(m) == m.kind = Some("tool_call") \/ m.kind = Some("tool_result")

\* script?.options?.typingSpeed ?? defaultTypingSpeed
initialSpeed(sc) ==
    IF sc = None THEN defaultTypingSpeed
    ELSE IF sc[1].options = None THEN defaultTypingSpeed
    ELSE OrElse(sc[1].options[1].typingSpeed, defaultTypingSpeed)

\* script?.options?.messageDelayMs ?? defaultDelayMs
initialDelay(sc) ==
    IF sc = None THEN defaultDelayMs
    ELSE IF sc[1].options = None THEN defaultDelayMs
    ELSE OrElse(sc[1].options[1].messageDelayMs, defaultDelayMs)

\* if (idx + 1 < script.messages.length) setIdx(idx + 1); else setStatus('finished')
advance(c, s) ==
    IF c.idx + 1 < Total(c.script)
    THEN [s EXCEPT !.idx = c.idx + 1]
    ELSE [s EXCEPT !.status = "finished"]

----------------------------------------------------------------------------
\* The control handlers.  Each reads the values of the render it was created
\* in (c) and queues state updates; s is the state the updates apply to.

restart(c, s) ==
    [s EXCEPT !.messages = <<>>, !.typed = <<>>, !.idx = 0,
              !.composerText = <<>>, !.status = "playing"]

play(c, s) ==
    IF c.script = None THEN s
    ELSE IF c.status = "finished" THEN restart(c, s)
    ELSE [s EXCEPT !.status = "playing"]

pause(c, s) == [s EXCEPT !.status = "paused"]

skip(c, s) ==
    IF c.script = None \/ current(c) = None THEN s
    ELSE LET cur == current(c)[1] IN
         IF layout = "liveScript" /\ isUser(cur)
         THEN \* setComposerText(content); setMessages(prev => [...prev, {...current}]);
              \* setComposerText(''); advance
              advance(c, [s EXCEPT !.messages = Append(@, cur), !.composerText = <<>>])
         ELSE IF isMessageKind(cur)
         THEN [s EXCEPT !.typed = OrElse(cur.content, <<>>)]
         ELSE s

next(c, s) ==
    IF c.script = None \/ current(c) = None THEN s
    ELSE LET cur == current(c)[1] IN
         IF layout = "liveScript" /\ isUser(cur)
         THEN advance(c, [s EXCEPT
                  !.messages = Append(@, [cur EXCEPT !.content = Some(OrElse(cur.content, c.composerText))]),
                  !.composerText = <<>>])
         ELSE advance(c, [s EXCEPT !.messages = Append(@, cur), !.typed = <<>>])

\* a speed change that starts the reveal of the in-flight turn over
setSpeedRestartsTurn(n, s) ==
    [s EXCEPT !.speed = n, !.typed = <<>>, !.composerText = <<>>]

\* setSpeed: the state setter itself is what the handle exposes
setSpeed(n, s) == [s EXCEPT !.speed = n]

\* setDelay: setDelayMs
setDelay(ms, s) == [s EXCEPT !.delayMs = ms]

----------------------------------------------------------------------------
\* The effects.

\* "Reset when script changes": runs on mount and when the script prop changes
resetEffect(s) ==
    [s EXCEPT !.messages = <<>>, !.typed = <<>>, !.idx = 0,
              !.status = IF s.script # None THEN "idle" ELSE "error",
              !.speed = initialSpeed(s.script),
              !.delayMs = initialDelay(s.script)]

\* "Reset composer": runs when the status of the render c differs from that
\* of the render before it (prev), reads the status of c, and queues its
\* update; s is the state the update applies to
composerEffect(prev, c, s) ==
    IF c.status # prev.status /\ c.status = "idle"
    THEN [s EXCEPT !.composerText = <<>>]
    ELSE s

\* 1000 / Math.max(1, speed), as the whole number of milliseconds a timeout
\* is scheduled for
interval(c) == 1000 \div Max(1, c.speed)

Timer(kind, ms, c, content) ==
    Some([kind |-> kind, ms |-> ms, idx |-> c.idx, current |-> current(c)[1],
          content |-> content, typedLen |-> Len(c.typed),
          composerLen |-> Len(c.composerText), total |-> Total(c.script)])

\* The playback effect: the timeout it leaves pending for the render c (its
\* cleanup has cancelled the timeout of the previous run).
playbackEffect(c) ==
    IF c.script = None \/ current(c) = None THEN None
    ELSE IF c.status # "playing" THEN None
    ELSE LET cur == current(c)[1]
             content == OrElse(cur.content, <<>>)
         IN  IF layout = "liveScript" /\ isUser(cur)
             THEN IF Len(c.composerText) < Len(content)
                  THEN Timer("stage", interval(c), c, content)
                  ELSE Timer("commitStaged", c.delayMs, c, content)
             ELSE IF isAssistantMessage(cur)
             THEN IF Len(c.typed) < Len(content)
                  THEN Timer("type", interval(c), c, content)
                  ELSE Timer("commit", c.delayMs, c, content)
             ELSE IF isTool(cur)
             THEN Timer("dwell", OrElse(cur.durationMs, defaultDurationMs), c, content)
             ELSE None

\* [status, typed, speed, delayMs, current, idx, script, layout, composerText]:
\* one of the dependencies of the playback effect differs between the render
\* prev and the render s (replaced: the script prop is a new object), so that
\* its cleanup and the effect run
playbackDepsChanged(prev, s, replaced) ==
    \/ replaced
    \/ s.status # prev.status \/ s.typed # prev.typed
    \/ s.speed # prev.speed \/ s.delayMs # prev.delayMs
    \/ s.idx # prev.idx \/ s.composerText # prev.composerText

\* The callback of the pending timeout t (not cancelled), by the values its
\* closure holds.
timeout(t, s) ==
    CASE t.kind = "stage" ->
           [s EXCEPT !.composerText = Slice(t.content, t.composerLen + 1)]
      [] t.kind = "commitStaged" ->
           [s EXCEPT !.messages = Append(@, [t.current EXCEPT !.content = Some(t.content)]),
                     !.composerText = <<>>, !.idx = t.idx + 1, !.typed = <<>>]
      [] t.kind = "type" ->
           [s EXCEPT !.typed = Slice(t.content, t.typedLen + 1)]
      [] t.kind = "commit" ->
           LET s1 == [s EXCEPT !.messages = Append(@, t.current), !.typed = <<>>]
           IN  IF t.idx + 1 < t.total THEN [s1 EXCEPT !.idx = t.idx + 1]
               ELSE [s1 EXCEPT !.status = "finished"]
      [] t.kind = "dwell" ->
           LET s1 == [s EXCEPT !.messages = Append(@, t.current)]
           IN  IF t.idx + 1 < t.total THEN [s1 EXCEPT !.idx = t.idx + 1]
               ELSE [s1 EXCEPT !.status = "finished"]

\* The snapshot handed to onState and returned by getState()
Snapshot(s) ==
    [status |-> s.status, speed |-> s.speed, delayMs |-> s.delayMs,
     idx |-> s.idx, total |-> Total(s.script),
     isUserStaging |-> /\ layout = "liveScript"
                       /\ current(s) # None
                       /\ current(s)[1].role = "user"]

\* "expose state outward": last is the snapshot the subscriber received
\* last, if any; replaced says that the script prop is a new object. The
\* effect runs when one of its dependencies changed and returns at once
\* when there is no script.
onStateEffect(prev, s, last, replaced) ==
    IF s.script = None THEN last
    ELSE IF \/ replaced
            \/ s.status # prev.status \/ s.speed # prev.speed
            \/ s.delayMs # prev.delayMs \/ s.idx # prev.idx
         THEN Some(Snapshot(s))
         ELSE last

----------------------------------------------------------------------------
\* The state updates the effects of the render c queue (prev is the render
\* before c; replaced: the script prop is a new object): those of the reset
\* effect, then that of the composer effect; b is the state the updates
\* apply to.  Both effects belong to the render c: the composer effect sees
\* the status that was rendered, not the one the reset effect has just
\* queued.
effectUpdates(prev, c, b, replaced) ==
    composerEffect(prev, c, IF replaced THEN resetEffect(b) ELSE b)

\* the effects of the render c whose updates change some value of b
effectNames(prev, c, b, replaced) ==
    (IF replaced /\ resetEffect(b) # b THEN <<"reset">> ELSE <<>>)
        \o (IF composerEffect(prev, c, b) # b THEN <<"composer">> ELSE <<>>)

\* Nothing waits: no update is queued, and the effects of the last render
\* have run.
Settled == pending = <<>> /\ effects = None

\* Rendering at once (a click, which React renders before the event ends,
\* with the effects of the render; never a timeout callback): the state
\* s that the updates produce is rendered, the effects whose dependencies
\* changed run (the cleanup of the playback effect cancels the pending
\* timeout), and the updates the effects made are queued for a render of
\* their own (none when they leave every value as it is).
Rendered(s, name) ==
    /\ script' = s.script
    /\ status' = s.status
    /\ messages' = s.messages
    /\ typed' = s.typed
    /\ composerText' = s.composerText
    /\ idx' = s.idx
    /\ speed' = s.speed
    /\ delayMs' = s.delayMs
    /\ IF playbackDepsChanged(State, s, FALSE)
       THEN timer' = playbackEffect(s) /\ elapsed' = "none"
       ELSE UNCHANGED <<timer, elapsed>>
    /\ snapshot' = onStateEffect(State, s, snapshot, FALSE)
    /\ queued' = IF effectUpdates(State, s, s, FALSE) = s THEN None
                 ELSE Some(effectUpdates(State, s, s, FALSE))
    /\ pending' = effectNames(State, s, s, FALSE)
    /\ effects' = None
    /\ op' = name
    /\ UNCHANGED <<layout, text, parsed>>

\* Rendering alone: React renders and commits the state s (the handle is
\* refreshed with it); the effects of the render, the cleanup of the
\* playback effect among them, wait for a step of their own.  effects
\* remembers the render before (prev), whether the script prop is a new
\* object (replaced), and whose updates were rendered (names).  A render
\* that changes no value is no render.
Committed(s, name, replaced) ==
    /\ effects = None
    /\ script' = s.script
    /\ status' = s.status
    /\ messages' = s.messages
    /\ typed' = s.typed
    /\ composerText' = s.composerText
    /\ idx' = s.idx
    /\ speed' = s.speed
    /\ delayMs' = s.delayMs
    /\ effects' = IF s = State /\ ~replaced THEN None
                  ELSE Some([prev |-> State, replaced |-> replaced, names |-> pending])
    /\ queued' = None
    /\ pending' = <<>>
    /\ op' = name
    /\ UNCHANGED <<layout, timer, elapsed, snapshot, text, parsed>>

\* the message list stays within the model's bound
Bounded(s) == Len(s.messages) <= Total(s.script) + MaxExtra

----------------------------------------------------------------------------
\* Initial states: the component is mounted with a script prop (or none) and
\* a layout and has rendered for the first time, with the initial values of
\* its useState calls; its effects have not run yet (all of them run after
\* the first render: there is no render before it to compare with).

Mounted(sc) ==
    [script |-> sc, status |-> "idle", messages |-> <<>>, typed |-> <<>>,
     composerText |-> <<>>, idx |-> 0,
     speed |-> initialSpeed(sc), delayMs |-> initialDelay(sc)]

Init ==
    /\ script \in Scripts
    /\ layout \in Layouts
    /\ status = Mounted(script).status
    /\ messages = Mounted(script).messages
    /\ typed = Mounted(script).typed
    /\ composerText = Mounted(script).composerText
    /\ idx = Mounted(script).idx
    /\ speed = Mounted(script).speed
    /\ delayMs = Mounted(script).delayMs
    /\ timer = None
    /\ elapsed = "none"
    /\ snapshot = None
    /\ queued = None
    /\ pending = <<>>
    /\ effects = Some([prev |-> [Mounted(script) EXCEPT !.status = "unmounted"],
                       replaced |-> TRUE, names |-> <<>>])
    /\ op = "mount"
    /\ text = <<>>
    /\ parsed = None

----------------------------------------------------------------------------
\* Actions.

\* The state the queued updates have produced so far: the state the next
\* update applies to.
Base == OrElse(queued, State)

\* A handler or callback (name) has left the state s behind and React
\* renders later: nothing is rendered, no effect runs, the handle stays as
\* it is.  pending lists the handlers, callbacks and effects whose updates
\* wait for the render; a call that changes no value leaves no update.
Queued(s, name) ==
    /\ Len(pending) + (IF effects = None THEN 0 ELSE 1) < MaxCalls
    /\ s # Base
    /\ queued' = IF s = State THEN None ELSE Some(s)
    /\ pending' = Append(pending, name)
    /\ op' = "queue"
    /\ UNCHANGED <<script, layout, status, messages, typed, composerText, idx,
                   speed, delayMs, snapshot, effects, text, parsed>>

\* A call through the handle (or a click) that React renders at once, when
\* nothing waits.
Play == Settled /\ Rendered(play(State, State), "play")

Pause == Settled /\ Rendered(pause(State, State), "pause")

Restart == Settled /\ Rendered(restart(State, State), "restart")

Skip == /\ Settled
        /\ Bounded(skip(State, State))
        /\ Rendered(skip(State, State), "skip")

NextTurn == /\ Settled
            /\ Bounded(next(State, State))
            /\ Rendered(next(State, State), "next")

SetSpeed == /\ Settled
            /\ \E n \in SpeedInputs : Rendered(setSpeed(n, State), "setSpeed")

SetDelay == /\ Settled
            /\ \E ms \in DelayInputs : Rendered(setDelay(ms, State), "setDelay")

\* The same calls when React renders later: the handler is that of the
\* last render, and its updates are queued behind those already queued.
PlayQueued ==
    /\ Queued(play(State, Base), "play")
    /\ UNCHANGED <<timer, elapsed>>

PauseQueued ==
    /\ Queued(pause(State, Base), "pause")
    /\ UNCHANGED <<timer, elapsed>>

RestartQueued ==
    /\ Queued(restart(State, Base), "restart")
    /\ UNCHANGED <<timer, elapsed>>

SkipQueued ==
    /\ Bounded(skip(State, Base))
    /\ Queued(skip(State, Base), "skip")
    /\ UNCHANGED <<timer, elapsed>>

NextTurnQueued ==
    /\ Bounded(next(State, Base))
    /\ Queued(next(State, Base), "next")
    /\ UNCHANGED <<timer, elapsed>>

SetSpeedQueued ==
    /\ \E n \in SpeedInputs : Queued(setSpeed(n, Base), "setSpeed")
    /\ UNCHANGED <<timer, elapsed>>

SetDelayQueued ==
    /\ \E ms \in DelayInputs : Queued(setDelay(ms, Base), "setDelay")
    /\ UNCHANGED <<timer, elapsed>>

\* The pending timeout fires (the cleanup of the playback effect has not
\* cancelled it): its callback, that of the render that scheduled it, queues
\* its updates and returns; React renders them later (Flush) and runs the
\* effects of that render after that (RunEffects).  The timeout is gone,
\* whether or not its updates change a value.
TimerFires ==
    /\ timer # None
    /\ Bounded(timeout(timer[1], Base))
    /\ IF timeout(timer[1], Base) = Base
       THEN /\ op' = "queue"
            /\ UNCHANGED <<script, layout, status, messages, typed, composerText, idx,
                           speed, delayMs, snapshot, queued, pending, effects,
                           text, parsed>>
       ELSE Queued(timeout(timer[1], Base), "timer")
    /\ timer' = None
    /\ elapsed' = "none"

\* React renders the queued updates (before it renders, the effects of the
\* render before have run)
Flush ==
    /\ pending # <<>>
    /\ Committed(Base, "batch", FALSE)

\* The parent passes another script (or null): React renders the new prop
\* with the state as it is (queued updates included).  Null after null is
\* no change of the prop.
SetScript ==
    \E sc \in Replacements :
        /\ script # None \/ sc # None
        /\ Len(pending) <= MaxQueuedAtReplacement
        /\ Committed([Base EXCEPT !.script = sc], "script", TRUE)

\* The effects of the last render run, those whose dependencies changed
\* since the render before: the playback effect (its cleanup cancels the
\* timeout of its last run, then it schedules the timeout of this render),
\* the onState effect, and the reset and composer effects, whose updates
\* are queued behind those of the calls made since the render.
RunEffects ==
    /\ effects # None
    /\ IF playbackDepsChanged(effects[1].prev, State, effects[1].replaced)
       THEN timer' = playbackEffect(State) /\ elapsed' = "none"
       ELSE UNCHANGED <<timer, elapsed>>
    /\ snapshot' = onStateEffect(effects[1].prev, State, snapshot, effects[1].replaced)
    /\ queued' = IF effectUpdates(effects[1].prev, State, Base, effects[1].replaced) = State
                 THEN None
                 ELSE Some(effectUpdates(effects[1].prev, State, Base, effects[1].replaced))
    /\ pending' = pending \o effectNames(effects[1].prev, State, Base, effects[1].replaced)
    /\ effects' = None
    /\ op' = "effects"
    /\ UNCHANGED <<script, layout, status, messages, typed, composerText, idx,
                   speed, delayMs, text, parsed>>

Next ==
    \/ Play
    \/ Pause
    \/ Restart
    \/ Skip
    \/ NextTurn
    \/ SetSpeed
    \/ SetDelay
    \/ PlayQueued
    \/ PauseQueued
    \/ RestartQueued
    \/ SkipQueued
    \/ NextTurnQueued
    \/ SetSpeedQueued
    \/ SetDelayQueued
    \/ TimerFires
    \/ Flush
    \/ SetScript
    \/ RunEffects

Spec == Init /\ [][Next]_vars

----------------------------------------------------------------------------
\* Uninterrupted playback: a script of at least one turn is mounted, play()
\* is called once (rendered at once or later; before or after the effects
\* of the mount have run), and from then on only the pending timeout fires.
\* A pending timeout always fires in the end, React always renders the
\* queued updates and always runs the effects of a render.

InitPlay == Init /\ Total(script) >= 1

\* play() has not been called
NotPlayed == op \in {"mount", "effects"} /\ status = "idle" /\ pending = <<>>

PlayOnce == NotPlayed /\ Play

PlayOnceQueued == NotPlayed /\ PlayQueued

NextPlay ==
    \/ PlayOnce
    \/ PlayOnceQueued
    \/ TimerFires
    \/ Flush
    \/ RunEffects

SpecPlay ==
    /\ InitPlay
    /\ [][NextPlay]_vars
    /\ WF_vars(TimerFires)
    /\ WF_vars(Flush)
    /\ WF_vars(RunEffects)

----------------------------------------------------------------------------
\* Playback in time: elapsed says how much of the pending timeout's interval
\* has passed since setTimeout was called ("none", "part" of it, or the
\* "full" interval).  Time passes, the timeout fires once its interval has
\* passed (at once when the interval is 0), and playback is interrupted by
\* play(), pause(), setSpeed() and setDelay(), each rendered at once or
\* later.

Elapse ==
    /\ timer # None
    /\ elapsed # "full"
    /\ elapsed' = IF elapsed = "none" THEN "part" ELSE "full"
    /\ op' = "elapse"
    /\ UNCHANGED <<script, layout, status, messages, typed, composerText, idx,
                   speed, delayMs, timer, snapshot, queued, pending, effects,
                   text, parsed>>

\* the timeout fires once its interval has passed
TimeoutDue ==
    /\ timer # None
    /\ elapsed = "full" \/ timer[1].ms = 0
    /\ TimerFires

NextTimed ==
    \/ Play
    \/ Pause
    \/ SetSpeed
    \/ SetDelay
    \/ Elapse
    \/ PlayQueued
    \/ PauseQueued
    \/ SetSpeedQueued
    \/ SetDelayQueued
    \/ TimeoutDue
    \/ Flush
    \/ RunEffects

SpecTimed == Init /\ [][NextTimed]_vars

----------------------------------------------------------------------------
\* The parser on its own: a text is given, and parseTextScript is applied to
\* it once.  No component is involved (its variables rest).

InitParse ==
    /\ text \in Texts
    /\ parsed = None
    /\ script = None
    /\ layout = "classic"
    /\ status = "idle"
    /\ messages = <<>>
    /\ typed = <<>>
    /\ composerText = <<>>
    /\ idx = 0
    /\ speed = defaultTypingSpeed
    /\ delayMs = defaultDelayMs
    /\ timer = None
    /\ elapsed = "none"
    /\ snapshot = None
    /\ queued = None
    /\ pending = <<>>
    /\ effects = None
    /\ op = "mount"

ParseText ==
    /\ parsed = None
    /\ parsed' = Some(parseTextScript(text, defaultTitle))
    /\ UNCHANGED <<script, layout, status, messages, typed, composerText, idx,
                   speed, delayMs, timer, elapsed, snapshot, queued, pending, effects, op,
                   text>>

SpecParse == InitParse /\ [][ParseText]_vars

----------------------------------------------------------------------------
\* Vocabulary of the properties.

\* Script.turns
ScriptTurns == IF script = None THEN <<>> ELSE script[1].messages

\* two turns are the same turn: same role, kind and duration, and the same
\* content as rendered (m.content ?? '')
SameTurn(a, b) ==
    /\ a.role = b.role
    /\ a.kind = b.kind
    /\ a.durationMs = b.durationMs
    /\ OrElse(a.content, <<>>) = OrElse(b.content, <<>>)

\* h is the first Len(h) turns of the script
IsScriptPrefix(h) ==
    /\ Len(h) <= Len(ScriptTurns)
    /\ \A i \in 1..Len(h) : SameTurn(h[i], ScriptTurns[i])

\* the turn at cursor (when there is one)
HasCurrent == current(State) # None
Cur == current(State)[1]
IsLast == idx + 1 >= Total(script)

\* the history of the state s is that of this state and the turn at cursor
AppendsCurrentIn(s) ==
    /\ Len(s.messages) = Len(messages) + 1
    /\ SubSeq(s.messages, 1, Len(messages)) = messages
    /\ SameTurn(s.messages[Len(s.messages)], Cur)

\* this step appends exactly the turn at cursor to history
AppendsCurrent == AppendsCurrentIn(State')

\* a text turn staged into the composer (combined layout, role user)
Staged == HasCurrent /\ layout = "liveScript" /\ isUser(Cur)

\* the same, of the state s
StagedIn(s) == current(s) # None /\ layout = "liveScript" /\ isUser(current(s)[1])

\* this step is a call of name through the handle, rendered at once or later
Calls(name) == op' = name \/ (op' = "queue" /\ pending' = Append(pending, name))

\* The state a call (the step is Calls(name)) has produced; the state it was
\* made in, with the calls made before it since the last render, is Base.
After == IF op' = "queue" THEN Base' ELSE State'

\* this step renders the updates of name (a handler, "timer", or the effect
\* "reset" or "composer"), alone or in a batch (the render of a new script
\* prop takes the queued updates with it)
Renders(name) ==
    \/ op' = name
    \/ op' \in {"batch", "script"} /\ \E i \in 1..Len(pending) : pending[i] = name

\* this step renders the new script prop, or the reset that follows it
Replaces == op' = "script" \/ Renders("reset")

\* this step is the callback of the pending timeout
TimerRuns == timer # None /\ op' = "queue" /\ timer' = None

\* the same, with nothing else waiting: no update queued before it and the
\* effects of the last render run; the state it leaves is After
TimerRunsAlone == TimerRuns /\ Settled

----------------------------------------------------------------------------
\* C1: history is always a prefix of Script.turns in script order: no turn
\* is committed twice or out of order, also not by a further next() after
\* the last turn was committed.
C1_HistoryIsScriptPrefix == IsScriptPrefix(messages)

\* C2: every step that commits the last turn of the script, by whichever
\* commit path, leaves status finished.
C2_LastCommitFinishes ==
    [][(script' = script /\ HasCurrent /\ idx + 1 = Total(script)
        /\ Len(messages') = Len(messages) + 1)
       => status' = "finished"]_vars

\* C3: uninterrupted playback of a script of at least one turn ends, in every
\* layout, with status finished and history equal to the whole script: once
\* play() was called, a state in which nothing waits and no timeout is
\* pending (the run's last state) is finished with all turns committed in
\* order.
C3_PlaybackCompletes ==
    (~NotPlayed /\ Settled /\ timer = None)
        => (status = "finished" /\ Len(messages) = Len(ScriptTurns) /\ IsScriptPrefix(messages))

\* C4: finished is terminal: a step from finished that is not play(),
\* restart() or a replacement of the script keeps status finished and
\* changes neither history nor cursor.
C4_FinishedIsTerminal ==
    [][(status = "finished" /\ ~Renders("play") /\ ~Renders("restart") /\ ~Replaces)
       => (status' = "finished" /\ messages' = messages /\ idx' = idx)]_vars

\* C5 (as stated): between operations history.length equals cursor, in
\* every status.
C5_HistoryLengthIsCursor == Len(messages) = idx

\* C5, read with the end-of-script convention of the code's commits (the
\* commit of the last turn leaves cursor on that turn): history.length
\* equals cursor in every state in which history is shorter than the script,
\* and is at least cursor otherwise.
C5_HistoryLengthIsCursorUntilLast ==
    /\ idx <= Len(messages)
    /\ Len(messages) < Total(script) => Len(messages) = idx

\* C6: while no script is loaded status is error and play, pause, restart,
\* skip and next change none of status, cursor, history, revealBuffer and
\* composerBuffer.
C6_NoScriptControlsAreNoOps ==
    [][(script = None /\ op' \in {"play", "pause", "restart", "skip", "next"})
       => (status = "error" /\ UNCHANGED <<status, idx, messages, typed, composerText>>)]_vars

\* C7 (as stated): whenever a current turn exists next() appends the full
\* turn at cursor, leaves both buffers empty, advances cursor by one and sets
\* status to finished exactly when no turns remain; with no current turn it
\* changes nothing.
C7_NextAdvancesCursor ==
    [][op' = "next"
       => IF HasCurrent
          THEN /\ AppendsCurrent
               /\ typed' = <<>> /\ composerText' = <<>>
               /\ idx' = idx + 1
               /\ (status' = "finished") <=> (idx' >= Total(script))
          ELSE UNCHANGED <<status, messages, typed, composerText, idx>>]_vars

\* C7, with "advances cursor" read as the code's commits do it (the commit
\* of the last turn leaves cursor on that turn and sets status finished):
\* whenever script.messages[cursor] exists next() appends that full turn
\* (not the partial buffer) and leaves both buffers empty; when further
\* turns remain cursor advances by one and status is unchanged.  With no
\* current turn next() changes nothing.
C7_NextCommitsCurrent ==
    [][op' = "next"
       => IF HasCurrent
          THEN /\ AppendsCurrent
               /\ typed' = <<>> /\ composerText' = <<>>
               /\ IF IsLast THEN idx' = idx /\ status' = "finished"
                            ELSE idx' = idx + 1 /\ status' = status
          ELSE UNCHANGED <<status, messages, typed, composerText, idx>>]_vars

\* C8: in the combined layout skip() on a user text turn commits
\* in the same step, in any status: the full turn is appended, composerBuffer
\* is empty, cursor advances by one, and status is finished if it was the
\* last turn.
C8_StagedSkipAdvancesCursor ==
    [][(op' = "skip" /\ Staged)
       => /\ AppendsCurrent
          /\ composerText' = <<>>
          /\ idx' = idx + 1
          /\ IsLast => status' = "finished"]_vars

\* C9: skip() on a text turn that is not a staged user turn sets revealBuffer
\* to the turn's full content and leaves cursor, history and status
\* unchanged; skip() with no current turn changes nothing.  The turn is the
\* one at cursor in the state the call is made in.
C9_SkipOnlyCompletesReveal ==
    [][Calls("skip")
       => /\ (current(Base) # None /\ ~StagedIn(Base) /\ isMessageKind(current(Base)[1]))
                => /\ After.typed = OrElse(current(Base)[1].content, <<>>)
                   /\ After.idx = Base.idx
                   /\ After.messages = Base.messages
                   /\ After.status = Base.status
          /\ current(Base) = None => After = Base]_vars

----------------------------------------------------------------------------
\* Two continuations of a state s in which a text turn is being played.

\* the timeout pending after s fires (s itself when none is pending)
fire(s) ==
    IF playbackEffect(s) = None THEN s ELSE timeout(playbackEffect(s)[1], s)

\* skip(), then the dwell is waited out: the commit of the turn at cursor
SkipThenDwell(s) ==
    LET s1 == skip(s, s)
    IN  IF Len(s1.messages) > Len(s.messages) THEN s1 ELSE fire(s1)

\* the reveal runs tick by tick, then the dwell is waited out
RECURSIVE NaturalThenDwell(_, _)
NaturalThenDwell(s, ticks) ==
    IF ticks = 0 \/ Len(fire(s).messages) > Len(s.messages) THEN fire(s)
    ELSE NaturalThenDwell(fire(s), ticks - 1)

SameOutcome(a, b) ==
    /\ Len(a.messages) = Len(b.messages)
    /\ \A i \in 1..Len(a.messages) : SameTurn(a.messages[i], b.messages[i])
    /\ a.idx = b.idx
    /\ a.status = b.status

\* C10: while playing a text turn, at every partial reveal length, skip()
\* followed by the dwell ends in the same history, cursor and status as the
\* character-by-character reveal followed by the dwell.
C10_SkipEqualsNaturalReveal ==
    (status = "playing" /\ HasCurrent /\ isMessageKind(Cur))
        => SameOutcome(SkipThenDwell(State), NaturalThenDwell(State, MaxLen + 1))

----------------------------------------------------------------------------
\* The buffer a text turn at cursor is revealed into, and its content.

ActiveBuffer == IF Staged THEN composerText ELSE typed

CurContent == OrElse(Cur.content, <<>>)

TextAtCursor == HasCurrent /\ isMessageKind(Cur)

IsPrefix(a, b) == Len(a) <= Len(b) /\ a = SubSeq(b, 1, Len(a))

\* the active buffer of the state s
ActiveBufferIn(s) == IF StagedIn(s) THEN s.composerText ELSE s.typed

\* this step is the callback of a reveal tick, with nothing else waiting
RevealTick == TimerRunsAlone /\ timer[1].kind \in {"type", "stage"}

\* C11: pause() changes only status, to paused: cursor, history and both
\* buffers are as they were, and they stay so while paused (until skip(),
\* next(), restart() or a replacement of the script), so that after a
\* following play() the reveal goes on from the length it had at the pause.
C11_PauseKeepsRevealPosition ==
    [][/\ Calls("pause") => After = [Base EXCEPT !.status = "paused"]
       /\ (/\ status = "paused"
           /\ ~Renders("skip") /\ ~Renders("next") /\ ~Renders("restart") /\ ~Replaces)
             => UNCHANGED <<idx, messages, typed, composerText>>]_vars

\* C12 (as stated): while a text turn is at cursor its active buffer is a
\* prefix of the content, each reveal tick lengthens it by exactly one
\* character, and its length never decreases while cursor is unchanged
\* (absent restart, also the one play() does from finished, and absent a
\* replacement of the script).
C12_BufferNeverShrinksAtCursor ==
    [][TextAtCursor
       => /\ IsPrefix(ActiveBuffer, CurContent)
          /\ RevealTick => Len(ActiveBufferIn(After)) = Len(ActiveBuffer) + 1
          /\ (idx' = idx /\ ~Renders("restart") /\ ~Replaces
              /\ ~(Renders("play") /\ status = "finished"))
                => Len(ActiveBuffer') >= Len(ActiveBuffer)]_vars

\* C12, read with the end-of-script convention of the code's commits (the
\* commit of the last turn empties the buffer and leaves cursor on that
\* turn): while a text turn is at cursor its active buffer is a prefix of
\* the content, each reveal tick lengthens it by exactly one character, and
\* its length never decreases while cursor is unchanged and no turn is
\* committed (absent restart and script replacement).
C12_BufferIsGrowingPrefix ==
    [][TextAtCursor
       => /\ IsPrefix(ActiveBuffer, CurContent)
          /\ RevealTick => Len(ActiveBufferIn(After)) = Len(ActiveBuffer) + 1
          /\ (idx' = idx /\ ~Renders("restart") /\ ~Replaces
              /\ ~(Renders("play") /\ status = "finished")
              /\ messages' = messages)
                => Len(ActiveBuffer') >= Len(ActiveBuffer)]_vars

\* the state restart() yields from s
Restarted(s) ==
    [s EXCEPT !.messages = <<>>, !.typed = <<>>, !.composerText = <<>>,
              !.idx = 0, !.status = "playing"]

\* C13: with a script loaded restart() yields empty history and buffers,
\* cursor 0 and status playing, with rate and delay unchanged, also when it
\* follows another restart(); and playback after it commits the script from
\* its first turn: in the state restart() yields, the first turn a timeout
\* commits is the first turn of the script.
C13_RestartResets ==
    [][/\ (Calls("restart") /\ Base.script # None) => After = Restarted(Base)
       /\ (/\ script # None /\ State = Restarted(State)
           /\ op' = "batch" /\ pending = <<"timer">>
           /\ messages' # <<>>)
             => (/\ Len(messages') = 1
                 /\ ScriptTurns # <<>>
                 /\ SameTurn(messages'[1], ScriptTurns[1]))]_vars

\* C14: play() changes nothing when no script is loaded; from finished it
\* produces the state restart() produces; in every other status it sets
\* status to playing and leaves cursor, history and both buffers unchanged.
\* The status is that of the state the call is made in.
C14_PlayResumesOrRestarts ==
    [][Calls("play")
       => After = IF Base.script = None THEN Base
                  ELSE IF Base.status = "finished" THEN Restarted(Base)
                  ELSE [Base EXCEPT !.status = "playing"]]_vars

\* this step commits the last turn of the script
CommitsLast ==
    HasCurrent /\ idx + 1 = Total(script) /\ Len(messages') = Len(messages) + 1

\* C15: status changes only along idle->playing, playing->paused,
\* paused->playing, playing->finished, {error, finished, paused, idle}->
\* playing by play()/restart(), any->error when the script becomes null, and
\* ->idle when a script is supplied.
C15_ListedTransitionsOnly ==
    [][status' # status
       => \/ status' = "playing" /\ (Renders("play") \/ Renders("restart"))
          \/ status = "playing" /\ status' = "paused"
          \/ status = "playing" /\ status' = "finished"
          \/ status' = "error" /\ Renders("reset") /\ script = None
          \/ status' = "idle" /\ Renders("reset") /\ script # None]_vars

\* C16: replacing the script (by another script or by null), in any status
\* and at any reveal position, resets the whole playback state: history
\* empty, cursor 0, both buffers empty, rate and delay from the new script's
\* options or the defaults, status idle (error for null).  The state meant
\* is the one in which the renders that follow the replacement end, no call
\* or timeout coming between them: the render of the reset has all values
\* but the composer's, which is empty then or after the one further render
\* the composer effect asks for.
C16_ReplacementResetsAll ==
    [][/\ (op' = "batch" /\ pending \in {<<"reset">>, <<"reset", "composer">>})
             => /\ messages' = <<>> /\ idx' = 0 /\ typed' = <<>>
                /\ speed' = initialSpeed(script') /\ delayMs' = initialDelay(script')
                /\ status' = IF script' = None THEN "error" ELSE "idle"
       /\ (/\ op' = "effects"
           /\ effects[1].names \in {<<"reset">>, <<"reset", "composer">>}
           /\ pending' = <<>>)
             => composerText = <<>>
       /\ (op' = "batch" /\ pending = <<"composer">>) => composerText' = <<>>
       /\ (op' = "effects" /\ effects[1].names = <<"composer">>) => pending' = <<>>]_vars

\* C17: in every step cursor stays, increases by exactly one, or is reset
\* to 0; it decreases only by a reset to 0, and only through restart(),
\* play() from finished, or a replacement of the script.
C17_CursorSteps ==
    [][/\ idx' = idx \/ idx' = idx + 1 \/ idx' = 0
       /\ idx' < idx
             => /\ idx' = 0
                /\ \/ Renders("restart") \/ Renders("reset")
                   \/ Renders("play") /\ status = "finished"]_vars

\* C18: 0 <= cursor <= Script.turns.length, and cursor equals the length only
\* when status is finished and the script has zero turns.
C18_CursorBelowLength ==
    script # None
        => /\ 0 <= idx /\ idx <= Total(script)
           /\ idx = Total(script) => (status = "finished" /\ Total(script) = 0)

\* the names of pending are all among S, and there is one
OnlyCalls(names, S) ==
    names # <<>> /\ \A i \in 1..Len(names) : names[i] \in S

\* the timeout t is of the kind of the timeout u and for the same cursor and
\* partial lengths
SameProgress(t, u) ==
    /\ t # None /\ u # None
    /\ t[1].kind = u[1].kind
    /\ t[1].idx = u[1].idx
    /\ t[1].typedLen = u[1].typedLen
    /\ t[1].composerLen = u[1].composerLen

\* C19: setSpeed and setDelay change only rate and delay respectively:
\* status, cursor, history and both buffers are unchanged by the call and by
\* the render of it, and the in-flight turn is not restarted: the timeout
\* pending after the effects of that render (a render of these calls alone,
\* not one of a new script) is of the same kind and continues from the same
\* partial length as the one pending before.
C19_SpeedAndDelayOnly ==
    [][/\ Calls("setSpeed") => \E n \in SpeedInputs : After = [Base EXCEPT !.speed = n]
       /\ Calls("setDelay") => \E ms \in DelayInputs : After = [Base EXCEPT !.delayMs = ms]
       /\ (op' = "batch" /\ OnlyCalls(pending, {"setSpeed", "setDelay"}))
             => UNCHANGED <<status, idx, messages, typed, composerText, script>>
       /\ (op' \in {"setSpeed", "setDelay"} /\ timer # None)
             => SameProgress(timer', timer)
       /\ (/\ op' = "effects" /\ OnlyCalls(effects[1].names, {"setSpeed", "setDelay"})
           /\ ~effects[1].replaced /\ timer # None)
             => SameProgress(timer', timer)]_vars

\* setSpeed() was called through the handle in the middle of a reveal and
\* rendered: the rate has changed, the reveal is where it was, and the tick
\* of the old interval is still pending (the effects have not run yet)
C19_Witness ==
    /\ op = "batch" /\ effects # None /\ effects[1].names = <<"setSpeed">>
    /\ status = "playing" /\ TextAtCursor
    /\ Len(ActiveBuffer) > 0 /\ Len(ActiveBuffer) < Len(CurContent)
    /\ speed \in SpeedInputs /\ speed # effects[1].prev.speed
    /\ timer # None /\ timer[1].kind \in {"type", "stage"}
    /\ timer[1].ms = 1000 \div effects[1].prev.speed

\* C20: every change of status, rate, delay or cursor results in a
\* notification to the subscriber whose snapshot equals the state after the
\* change, the transition into error on a null script included.  The
\* notification is due when the render of the change and its effects are
\* done.
C20_EveryChangeNotified ==
    [][/\ (/\ effects = None /\ effects' = None
           /\ status' # status \/ speed' # speed \/ delayMs' # delayMs \/ idx' # idx)
             => snapshot' = Some(Snapshot(State'))
       /\ (/\ op' = "effects" /\ effects[1].prev.status # "unmounted"
           /\ \/ status # effects[1].prev.status \/ speed # effects[1].prev.speed
              \/ delayMs # effects[1].prev.delayMs \/ idx # effects[1].prev.idx)
             => snapshot' = Some(Snapshot(State))]_vars

\* C21: the snapshot's user-staging flag is true exactly when the layout is
\* the combined one and the turn at cursor is a text turn with role user that
\* is not yet in history; it is false for event turns whatever their role,
\* in the other layouts, and once the last turn has been committed.
C21_StagingFlagExact ==
    Snapshot(State).isUserStaging
        <=> (Staged /\ Len(messages) <= idx)

----------------------------------------------------------------------------
\* Vocabulary of the parser's properties.

\* the lines of the parser's input
TextLines == split(normalizeBreaks(text))

\* line starts with the k-th label, in any case
StartsWithLabel(line, k) ==
    /\ Len(line) >= Len(Labels[k])
    /\ \A i \in 1..Len(Labels[k]) : toLowerCase(<<line[i]>>) = <<Labels[k][i]>>

\* str without its leading white space
RECURSIVE TrimStart(_)
TrimStart(str) ==
    IF str # <<>> /\ isSpace(Head(str)) THEN TrimStart(Tail(str)) ELSE str

\* a label line, the label directly followed by the colon
DirectLabel(line, k) ==
    /\ StartsWithLabel(line, k)
    /\ Len(line) > Len(Labels[k])
    /\ line[Len(Labels[k]) + 1] = ":"

\* what follows the colon of a label line, without leading white space
AfterColon(line) ==
    LET colon == CHOOSE i \in 1..Len(line) :
                     line[i] = ":" /\ \A j \in 1..(i - 1) : line[j] # ":"
    IN  TrimStart(SubSeq(line, colon + 1, Len(line)))

\* a label line, with white space allowed between the label and the colon,
\* and no line separator in what follows the colon
SpacedLabel(line, k) ==
    /\ StartsWithLabel(line, k)
    /\ TrimStart(SubSeq(line, Len(Labels[k]) + 1, Len(line))) # <<>>
    /\ Head(TrimStart(SubSeq(line, Len(Labels[k]) + 1, Len(line)))) = ":"
    /\ \A i \in 1..Len(AfterColon(line)) : AfterColon(line)[i] \notin LineTerminators

\* first, then the lines i..j of L, each after a line break
RECURSIVE JoinLines(_, _, _, _)
JoinLines(first, L, i, j) ==
    IF i > j THEN first ELSE JoinLines(first \o <<"\n">> \o L[i], L, i + 1, j)

\* The parse result is the one the line format describes, IsLabel(line, k)
\* saying which lines carry the k-th label: each label line and a leading
\* unlabelled line begins a turn, every other line continues the turn
\* before it after a line break, the turns are in line order, and the
\* options are 35 and 500.
ParsedByFormat(IsLabel(_, _)) ==
    LET L == TextLines
        labelled(i) == \E k \in 1..3 : IsLabel(L[i], k)
        starts == { i \in 1..Len(L) : i = 1 \/ labelled(i) }
        out == parsed[1].messages
    IN  /\ Len(out) = Cardinality(starts)
        /\ \A i \in starts :
              LET n == Cardinality({ j \in starts : j <= i })
                  last == CHOOSE j \in i..Len(L) :
                              /\ \A h \in (i + 1)..j : h \notin starts
                              /\ j = Len(L) \/ j + 1 \in starts
              IN  /\ out[n].role = IF labelled(i)
                                   THEN Roles[CHOOSE k \in 1..3 : IsLabel(L[i], k)]
                                   ELSE "assistant"
                  /\ out[n].kind = None
                  /\ out[n].content =
                        Some(JoinLines(IF labelled(i) THEN AfterColon(L[i]) ELSE L[i],
                                       L, i + 1, last))
        /\ parsed[1].options = Some([typingSpeed |-> Some(35), messageDelayMs |-> Some(500)])

\* C22: for every input text, each line that starts with user, assistant or
\* system (in any case) followed by ':' begins a new turn with that role in
\* lower case and the rest of the line as content; every other line is
\* appended to the current turn after a line break; a leading unlabelled line
\* begins an assistant turn; turns come out in line order; rate 35, delay 500.
C22_ParsesLineFormat ==
    parsed # None => ParsedByFormat(DirectLabel)

\* C22 (amended): the same, a label line being one that starts with the label
\* followed by optional white space and ':' and holds no line separator
\* (U+2028, U+2029) after the white space that follows the colon (within
\* that white space, and before the colon, a line separator is white space
\* like any other); its content is what follows the colon without leading
\* white space.
C22_ParsesSpacedLineFormat ==
    parsed # None => ParsedByFormat(SpacedLabel)

\* "user :h" / "user:<U+2028>h" / " user:h" was parsed into a user turn "h",
\* and a second user turn "h" (the line separator after the colon is white
\* space) continued over a line break by the unlabelled third line
C22_Witness ==
    /\ parsed # None
    /\ text = <<"u", "s", "e", "r", " ", ":", "h", "\n",
                "u", "s", "e", "r", ":", "U+2028", "h", "\r", "\n",
                " ", "u", "s", "e", "r", ":", "h">>
    /\ Len(parsed[1].messages) = 2
    /\ parsed[1].messages[1].role = "user"
    /\ parsed[1].messages[1].content = Some(<<"h">>)
    /\ parsed[1].messages[2].role = "user"
    /\ parsed[1].messages[2].content = Some(<<"h", "\n", " ", "u", "s", "e", "r", ":", "h">>)

----------------------------------------------------------------------------
\* C23: a timer changes state only for the turn at the current cursor of the
\* current script while status is playing: when its callback runs, the state
\* its updates apply to (the calls made since the last render included) has
\* status playing and the cursor, turn, script length and buffer lengths of
\* its closure (a timer scheduled before a pause, a cursor move, a restart,
\* a rate/delay change or a script replacement is gone), and the callback
\* extends the buffer of that turn by one character or commits that turn.
C23_TimerActsOnCurrentTurn ==
    [][TimerRuns
       => LET b == Base
              after == Base'
              t == timer[1]
          IN  /\ b.status = "playing" /\ current(b) # None
              /\ t.idx = b.idx /\ t.current = current(b)[1]
              /\ t.total = Total(b.script)
              /\ t.typedLen = Len(b.typed)
              /\ t.composerLen = Len(b.composerText)
              /\ t.ms = IF t.kind \in {"type", "stage"} THEN interval(b)
                        ELSE IF t.kind = "dwell"
                             THEN OrElse(current(b)[1].durationMs, defaultDurationMs)
                             ELSE b.delayMs
              /\ after.script = b.script
              /\ \/ /\ after.idx = b.idx /\ after.messages = b.messages
                    /\ after.status = b.status
                    /\ \/ /\ after.typed = Slice(t.content, Len(b.typed) + 1)
                          /\ Len(after.typed) = Len(b.typed) + 1
                          /\ after.composerText = b.composerText
                       \/ /\ after.composerText = Slice(t.content, Len(b.composerText) + 1)
                          /\ Len(after.composerText) = Len(b.composerText) + 1
                          /\ after.typed = b.typed
                 \/ /\ Len(after.messages) = Len(b.messages) + 1
                    /\ SubSeq(after.messages, 1, Len(b.messages)) = b.messages
                    /\ SameTurn(after.messages[Len(after.messages)], current(b)[1])]_vars

\* C24: at most one reveal-or-dwell timer is pending, the one the playback
\* effect scheduled for the current render (the one before it was cancelled);
\* none is pending when status is not playing or there is no current turn.
C24_OnePendingTimer ==
    /\ timer # None => timer = playbackEffect(State)
    /\ timer # None => (status = "playing" /\ HasCurrent /\ timer[1].idx = idx)
    /\ (status # "playing" \/ ~HasCurrent) => timer = None

\* C25: in the combined layout, while a user text turn is at cursor, reveal
\* ticks extend only composerBuffer and revealBuffer stays empty; the turn
\* enters history only by its dwell commit or by skip()/next(); and the dwell
\* commit appends the full turn (full content) and empties composerBuffer.
C25_StagedTurnGoesThroughComposer ==
    [][Staged
       => /\ typed = <<>>
          /\ RevealTick
                => /\ After.composerText = Slice(CurContent, Len(composerText) + 1)
                   /\ Len(After.composerText) = Len(composerText) + 1
                   /\ After.typed = <<>>
                   /\ After.messages = messages /\ After.idx = idx
                   /\ After.status = status
          /\ Len(messages') > Len(messages)
                => Renders("skip") \/ Renders("next") \/ Renders("timer")
          /\ (Len(messages') > Len(messages) /\ op' \in {"skip", "next"})
                => AppendsCurrent
          /\ (TimerRunsAlone /\ Len(After.messages) > Len(messages))
                => /\ AppendsCurrentIn(After)
                   /\ timer[1].kind = "commitStaged"
                   /\ composerText = CurContent
                   /\ After.messages[Len(After.messages)].content = Some(CurContent)
                   /\ After.composerText = <<>> /\ After.typed = <<>>]_vars

\* C26: in the classic and live layouts, while status is playing, a text
\* turn with role user at cursor is revealed and then committed like any
\* other text turn: playback always goes on to commit it.
C26_UserTurnPlaysInOtherLayouts ==
    \A n \in 0..(MaxTurns - 1) :
        (/\ layout # "liveScript" /\ status = "playing"
         /\ HasCurrent /\ isUser(Cur) /\ idx = n /\ Len(messages) = n)
            ~> (Len(messages) > n)

\* C27: while an event turn (tool_call / tool_result) is at cursor both
\* buffers stay empty, and while playing the turn is committed once, by the
\* timer of its own durationMs (1200 when absent) whatever rate and delay
\* are: the pending timer is that dwell (once the render is done and its
\* effects have run), and when it fires it appends the turn, which was not
\* in history before.
C27_EventTurnDwellsOnce ==
    [][(HasCurrent /\ isTool(Cur))
       => /\ typed = <<>> /\ composerText = <<>>
          /\ (status = "playing" /\ Settled)
                => /\ timer # None /\ timer[1].kind = "dwell"
                   /\ timer[1].ms = OrElse(Cur.durationMs, defaultDurationMs)
          /\ TimerRunsAlone
                => /\ AppendsCurrentIn(After)
                   /\ Len(messages) = idx
                   /\ After.typed = <<>> /\ After.composerText = <<>>]_vars

\* C28: revealBuffer and composerBuffer are never both non-empty; both are
\* empty right after any step that changes cursor or replaces the script;
\* composerBuffer is non-empty only in the combined layout while a user text
\* turn is at cursor, and revealBuffer only while a non-staged text turn is
\* at cursor.
C28_BuffersBelongToCurrentTurn ==
    [][/\ (typed' = <<>> \/ composerText' = <<>>)
       /\ (idx' # idx \/ Renders("reset")) => (typed' = <<>> /\ composerText' = <<>>)
       /\ composerText' # <<>>
             => (layout = "liveScript" /\ current(State') # None
                 /\ isUser(current(State')[1]))
       /\ typed' # <<>>
             => (/\ current(State') # None
                 /\ isMessageKind(current(State')[1])
                 /\ ~(layout = "liveScript" /\ isUser(current(State')[1])))]_vars

\* C29: two next() calls in immediate succession, with no render between
\* them, commit two distinct consecutive turns: history gains the turn at
\* cursor and the one after it, in that order, and cursor advances by two
\* (status becomes finished when fewer than two turns remain after cursor).
C29_BatchedNextCommitsTwoTurns ==
    [][(op' = "batch" /\ pending = <<"next", "next">>
        /\ HasCurrent /\ status # "finished")
       => LET n == IF idx + 2 <= Total(script) THEN 2 ELSE 1 IN
          /\ Len(messages') = Len(messages) + n
          /\ SubSeq(messages', 1, Len(messages)) = messages
          /\ \A k \in 1..n : SameTurn(messages'[Len(messages) + k], ScriptTurns[idx + k])
          /\ IF idx + 2 < Total(script) THEN idx' = idx + 2
             ELSE status' = "finished"]_vars

----------------------------------------------------------------------------
\* the full interval of a timeout of the given kind in the render s: the
\* tick interval, the event turn's duration, or the delay
IntervalOf(s, kind) ==
    IF kind \in {"type", "stage"} THEN interval(s)
    ELSE IF kind = "dwell" THEN OrElse(current(s)[1].durationMs, defaultDurationMs)
    ELSE s.delayMs

\* the pending timeout (if any) has just been scheduled, for its full interval
FreshTimer ==
    timer # None => (elapsed = "none" /\ timer[1].ms = IntervalOf(State, timer[1].kind))

\* this step runs the effects of a render of calls of S only
EffectsOf(S) == op' = "effects" /\ OnlyCalls(effects[1].names, S)

\* a render of calls of S only is done and its effects have not run
RenderedOnly(S) == effects # None /\ OnlyCalls(effects[1].names, S)

\* C31: timers carry no elapsed time across interruptions: after play()
\* following pause(), and after every setSpeed()/setDelay() while playing,
\* the pending timer of the in-flight turn has been cancelled and a new one
\* scheduled for the full interval; the timer that was pending at the call
\* does not fire once the call is rendered, and a timer fires only a full
\* interval after it was scheduled.
C31_EveryCallRestartsTimer ==
    [][/\ (\/ op' = "play" /\ status = "paused"
           \/ op' \in {"setSpeed", "setDelay"} /\ status = "playing"
           \/ EffectsOf({"setSpeed", "setDelay"}) /\ status = "playing")
             => FreshTimer'
       /\ op' = "pause" => timer' = None
       /\ RenderedOnly({"setSpeed", "setDelay", "pause"}) => ~TimerRuns
       /\ TimerRuns => (elapsed = "full" \/ timer[1].ms = 0)]_vars

\* C31, for the setSpeed()/setDelay() calls that change the value (a call
\* with the current value is no state change and no render follows it).
C31_ChangingCallRestartsTimer ==
    [][/\ (\/ op' = "play" /\ status = "paused"
           \/ op' = "setSpeed" /\ status = "playing" /\ speed' # speed
           \/ op' = "setDelay" /\ status = "playing" /\ delayMs' # delayMs
           \/ EffectsOf({"setSpeed", "setDelay"}) /\ status = "playing")
             => FreshTimer'
       /\ op' = "pause" => timer' = None
       /\ RenderedOnly({"setSpeed", "setDelay", "pause"}) => ~TimerRuns
       /\ TimerRuns => (elapsed = "full" \/ timer[1].ms = 0)]_vars

====
